---- MODULE Spec2Model ----
(***************************************************************************)
(* Delegated access grants of pet-clinical-history: the grant store, the   *)
(* invite / accept / revoke engine of internal/domain/accessgrants, and    *)
(* the authorization check the pet and event handlers run on every request.*)
(*                                                                         *)
(* Every store call (Create, Update, GetByID, ListByPet, GetActiveGrant)   *)
(* is atomic (the in-memory repository holds its mutex for the whole call);*)
(* an engine call is a sequence of such store calls, and the calls of      *)
(* different requests interleave between them.                             *)
(***************************************************************************)
EXTENDS Integers, Sequences, FiniteSets, TLC

\* ---------------------------------------------------------------- bounds
MaxGrants == 2
MaxTime == 2
NumProcs == 2
MaxScopes == 2
MaxFaultyGrants == 3

Procs == 1..NumProcs

\* ------------------------------------------------------------------ text
\* A Go string is held as the sequence of the code points of its runes:
\* Runes("bob") is <<98, 111, 98>>, and the empty string is <<>>.

\* The code points of the characters chars, which follow one another from
\* first on.
Run(chars, first) ==
  [c \in {SubSeq(chars, k, k) : k \in 1..Len(chars)} |->
     first - 1 + CHOOSE k \in 1..Len(chars) : SubSeq(chars, k, k) = c]

\* The code point of each character the literals of this module are
\* written with.
CodePoint ==
  Run("0123456789", 48) @@ Run("ABCDEFGHIJKLMNOPQRSTUVWXYZ", 65)
  @@ Run("abcdefghijklmnopqrstuvwxyz", 97)
  @@ ("\t" :> 9 @@ "\n" :> 10 @@ "\f" :> 12 @@ "\r" :> 13 @@ " " :> 32
      @@ "-" :> 45 @@ ":" :> 58 @@ "_" :> 95)

\* []rune(s) of a literal s.
RECURSIVE Runes(_)
Runes(s) ==
  IF Len(s) = 0 THEN <<>> ELSE <<CodePoint[Head(s)]>> \o Runes(Tail(s))

\* The runes with the White_Space property: \t \n \v \f \r, the blank,
\* U+0085, U+00A0, U+1680, U+2000 to U+200A, U+2028, U+2029, U+202F, U+205F
\* and U+3000.
WhiteSpace ==
  {9, 10, 11, 12, 13, 32, 133, 160, 5760, 8232, 8233, 8239, 8287, 12288}
    \cup (8192..8202)

\* unicode.IsSpace
IsSpace(r) == r \in WhiteSpace

\* strings.TrimLeftFunc(s, unicode.IsSpace)
RECURSIVE TrimLeft(_)
TrimLeft(s) ==
  IF Len(s) = 0 THEN s
  ELSE IF IsSpace(Head(s)) THEN TrimLeft(Tail(s))
  ELSE s

\* strings.TrimRightFunc(s, unicode.IsSpace)
RECURSIVE TrimRight(_)
TrimRight(s) ==
  IF Len(s) = 0 THEN s
  ELSE IF IsSpace(s[Len(s)]) THEN TrimRight(SubSeq(s, 1, Len(s) - 1))
  ELSE s

\* strings.TrimSpace: s without its leading and trailing white space.
TrimSpace(s) == TrimRight(TrimLeft(s))

\* ------------------------------------------------------- program constants
ScopePetRead == Runes("pet:read")
ScopePetEditProfile == Runes("pet:edit_profile")
ScopeEventsRead == Runes("events:read")
ScopeEventsCreate == Runes("events:create")
ScopeEventsVoid == Runes("events:void")
ScopeAttachmentsAdd == Runes("attachments:add")

StatusInvited == "invited"
StatusActive == "active"
StatusRevoked == "revoked"

Nil == "nil"
ErrInvalidInput == "invalid input"
ErrForbidden == "forbidden"
ErrNotFound == "not found"
ErrBadState == "invalid state"
ErrRepoIDRequired == "grant id required"
ErrRepoExists == "grant already exists"
\* ErrNotFound of package memory: the error of the in-memory repositories of
\* grants and of pets for an id they do not hold.
MemoryErrNotFound == "memory: not found"
\* The error of a store call that the database fails.
ErrStore == "store unavailable"

\* Grant{}: the zero value the engine returns next to an error.
\* RevokedAt is a pointer: <<>> is nil, <<t>> points to t.
ZeroGrant ==
  [ID |-> Runes(""), PetID |-> Runes(""), OwnerUserID |-> Runes(""),
   GranteeUserID |-> Runes(""), Scopes |-> <<>>, Status |-> "",
   CreatedAt |-> 0, UpdatedAt |-> 0, RevokedAt |-> <<>>]

\* ------------------------------------------------------------ environment
\* The pets known to the pet repository, with their owners.
PetOwner == (Runes("p1") :> Runes("alice") @@ Runes("p2") :> Runes("alice"))

\* uuid.NewString(): the n-th identifier minted.
GrantIDPool ==
  <<Runes("g1"), Runes("g2"), Runes("g3"), Runes("g4"), Runes("g5"),
    Runes("g6")>>

\* ---------------------------------------------------------------- inputs
Invitation(petID, ownerUserID, granteeUserID, scopes) ==
  [PetID |-> petID, OwnerUserID |-> ownerUserID,
   GranteeUserID |-> granteeUserID, Scopes |-> scopes]

\* The invitations of the settled executions: two grantees on one pet, one
\* grantee on two pets, two scope lists, and the inputs Invite rejects.
InviteInputs ==
  { Invitation(Runes("p1"), Runes("alice"), Runes("bob"), <<>>),
    Invitation(Runes("p1"), Runes("alice"), <<11>> \o Runes("bob") \o <<160>>,
               <<ScopeEventsRead, Runes(" events:read\n")>>),
    Invitation(Runes("p1"), Runes("alice"), Runes("carol"), <<>>),
    Invitation(Runes("p2"), Runes("alice"), Runes("bob"), <<>>),
    Invitation(Runes("p1"), Runes("alice"), Runes("alice"), <<>>),
    Invitation(Runes("p1"), Runes("alice"), <<133, 8195>> \o Runes("\r\n"),
               <<>>),
    Invitation(Runes("p1"), Runes(" alice "), Runes("alice"), <<>>),
    Invitation(Runes(""), Runes("alice"), Runes("bob"), <<>>),
    Invitation(Runes("p1"), Runes(" "), Runes("bob"), <<>>),
    Invitation(Runes("p1"), Runes("alice"), Runes("bob"),
               <<ScopeEventsRead, Runes("events:unknown")>>),
    Invitation(Runes("p1"), Runes("alice"), Runes("bob"), <<Runes(" ")>>) }

\* The invitations of the interleaved executions: one (pet, grantee) pair.
RaceInviteInputs == { Invitation(Runes("p1"), Runes("alice"), Runes("bob"), <<>>) }

\* The invitations of the executions that only invite: every scope list of
\* at most MaxScopes entries drawn from two catalog scopes, one of them also
\* with white space around it, a scope outside the catalog and a blank.
ScopeInputs ==
  {ScopeEventsRead, Runes(" events:read "), ScopeEventsCreate,
   Runes("events:unknown"), Runes(" ")}
ScopeLists == UNION {[1..n -> ScopeInputs] : n \in 0..MaxScopes}
ScopeInviteInputs ==
  {Invitation(Runes("p1"), Runes("alice"), u, sc) :
     u \in {Runes("bob"), Runes(" bob ")}, sc \in ScopeLists}

CallerInputs == {Runes("alice"), Runes("bob")}
RaceGranteeInputs == {Runes("bob")}
RaceOwnerInputs == {Runes("alice")}
GrantIDInputs == {GrantIDPool[i] : i \in 1..MaxGrants}
FaultyGrantIDInputs == {GrantIDPool[i] : i \in 1..MaxFaultyGrants}

\* faulty: the store in use is one whose calls can fail.
VARIABLES byID, clock, pc, loc, last, faulty

vars == <<byID, clock, pc, loc, last, faulty>>

\* ------------------------------------------------------------ grant store
\* A Create that replaces the grant stored under the id.
RepoCreate_Overwrite(store, g) ==
  IF g.ID = Runes("") THEN [store |-> store, err |-> ErrRepoIDRequired]
  ELSE [store |-> [id \in DOMAIN store \cup {g.ID} |->
                     IF id = g.ID THEN g ELSE store[id]],
        err |-> Nil]

\* grantRepo.Create
RepoCreate(store, g) ==
  IF g.ID = Runes("") THEN [store |-> store, err |-> ErrRepoIDRequired]
  ELSE IF g.ID \in DOMAIN store THEN [store |-> store, err |-> ErrRepoExists]
  ELSE [store |-> store @@ (g.ID :> g), err |-> Nil]

\* An Update that inserts the grant when the id is not stored.
RepoUpdate_Upsert(store, g) ==
  IF g.ID = Runes("") THEN [store |-> store, err |-> ErrRepoIDRequired]
  ELSE [store |-> [id \in DOMAIN store \cup {g.ID} |->
                     IF id = g.ID THEN g ELSE store[id]],
        err |-> Nil]

\* grantRepo.Update
RepoUpdate(store, g) ==
  IF g.ID = Runes("") THEN [store |-> store, err |-> ErrRepoIDRequired]
  ELSE IF g.ID \notin DOMAIN store
    THEN [store |-> store, err |-> MemoryErrNotFound]
  ELSE [store |-> [store EXCEPT ![g.ID] = g], err |-> Nil]

\* grantRepo.GetByID
RepoGetByID(store, id) ==
  IF id \in DOMAIN store THEN [g |-> store[id], err |-> Nil]
  ELSE [g |-> ZeroGrant, err |-> MemoryErrNotFound]

\* The listing is a snapshot; the map is iterated in no particular order.
RepoListByPet(store, petID) ==
  {store[i] : i \in {j \in DOMAIN store : store[j].PetID = petID}}

\* g replaces the current winner w in the loop of GetActiveGrant.
Beats(g, w) ==
  \/ g.UpdatedAt > w.UpdatedAt
  \/ g.UpdatedAt = w.UpdatedAt /\ g.CreatedAt > w.CreatedAt

\* GetActiveGrant without its status filter.
RepoGetActiveGrant_AnyStatus(store, petID, granteeUserID) ==
  LET cand == {store[i] : i \in {j \in DOMAIN store :
                  /\ store[j].PetID = petID
                  /\ store[j].GranteeUserID = granteeUserID}}
  IN {g \in cand : \A h \in cand : ~Beats(h, g)}

\* The grants GetActiveGrant can return: with several active grants that
\* tie on both timestamps the first one the map iteration meets wins.
RepoGetActiveGrant(store, petID, granteeUserID) ==
  LET cand == {store[i] : i \in {j \in DOMAIN store :
                  /\ store[j].PetID = petID
                  /\ store[j].GranteeUserID = granteeUserID
                  /\ store[j].Status = StatusActive}}
  IN {g \in cand : \A h \in cand : ~Beats(h, g)}

\* GetActiveGrant of the relational store (ORDER BY updated_at DESC LIMIT 1):
\* the rows it can return; rows that tie on updated_at come in no
\* particular order.
PgGetActiveGrant(store, petIDRaw, granteeRaw) ==
  LET petID == TrimSpace(petIDRaw)
      granteeUserID == TrimSpace(granteeRaw)
      cand == {store[i] : i \in {j \in DOMAIN store :
                  /\ store[j].PetID = petID
                  /\ store[j].GranteeUserID = granteeUserID
                  /\ store[j].Status = StatusActive}}
  IN IF petID = Runes("") \/ granteeUserID = Runes("") THEN {}
     ELSE {g \in cand : \A h \in cand : h.UpdatedAt <= g.UpdatedAt}

\* GetActiveGrant of the earlier in-memory store: the first active grant of
\* the pair that the map iteration meets.
MemOldGetActiveGrant(store, petID, granteeUserID) ==
  {store[i] : i \in {j \in DOMAIN store :
      /\ store[j].PetID = petID
      /\ store[j].GranteeUserID = granteeUserID
      /\ store[j].Status = StatusActive}}

\* ------------------------------------------------------------------ engine
\* HasScope that only asks for some scope.
HasScope_AnyScope(g, scope) == Len(g.Scopes) > 0

HasScope(g, scope) == \E i \in 1..Len(g.Scopes) : g.Scopes[i] = scope

Allowed ==
  {ScopePetRead, ScopePetEditProfile, ScopeEventsRead, ScopeEventsCreate,
   ScopeEventsVoid, ScopeAttachmentsAdd}

InSeq(x, sq) == \E i \in 1..Len(sq) : sq[i] = x

\* The loop of normalizeScopesStrict dropping the scopes outside the catalog.
RECURSIVE NormalizeFrom_SkipUnknown(_, _, _)
NormalizeFrom_SkipUnknown(in, i, out) ==
  IF i > Len(in) THEN [scopes |-> out, err |-> Nil]
  ELSE LET s == TrimSpace(in[i]) IN
       IF s = Runes("") \/ s \notin Allowed \/ InSeq(s, out)
         THEN NormalizeFrom_SkipUnknown(in, i + 1, out)
       ELSE NormalizeFrom_SkipUnknown(in, i + 1, Append(out, s))

\* The loop of normalizeScopesStrict from entry i on, out being the list
\* built so far (seen holds exactly the members of out).
RECURSIVE NormalizeFrom(_, _, _)
NormalizeFrom(in, i, out) ==
  IF i > Len(in) THEN [scopes |-> out, err |-> Nil]
  ELSE LET s == TrimSpace(in[i]) IN
       IF s = Runes("") THEN NormalizeFrom(in, i + 1, out)
       ELSE IF s \notin Allowed THEN [scopes |-> <<>>, err |-> ErrInvalidInput]
       ELSE IF InSeq(s, out) THEN NormalizeFrom(in, i + 1, out)
       ELSE NormalizeFrom(in, i + 1, Append(out, s))

normalizeScopesStrict(in) == NormalizeFrom(in, 1, <<>>)

\* The scopes of an invitation that names none.
DefaultScopes_PetOnly == <<ScopePetRead>>

DefaultScopes == <<ScopePetRead, ScopeEventsRead>>

\* An invitation stored as already accepted.
NewGrant_Active(newID, petID, ownerID, granteeID, scopes, now) ==
  [ID |-> newID, PetID |-> petID, OwnerUserID |-> ownerID,
   GranteeUserID |-> granteeID, Scopes |-> scopes,
   Status |-> StatusActive, CreatedAt |-> now,
   UpdatedAt |-> now, RevokedAt |-> <<>>]

\* An invitation stored without the instant it was updated at.
NewGrant_NotStamped(newID, petID, ownerID, granteeID, scopes, now) ==
  [ID |-> newID, PetID |-> petID, OwnerUserID |-> ownerID,
   GranteeUserID |-> granteeID, Scopes |-> scopes,
   Status |-> StatusInvited, CreatedAt |-> now,
   UpdatedAt |-> 0, RevokedAt |-> <<>>]

\* The Grant literal Service.Invite builds.
NewGrant(newID, petID, ownerID, granteeID, scopes, now) ==
  [ID |-> newID, PetID |-> petID, OwnerUserID |-> ownerID,
   GranteeUserID |-> granteeID, Scopes |-> scopes,
   Status |-> StatusInvited, CreatedAt |-> now,
   UpdatedAt |-> now, RevokedAt |-> <<>>]

\* An Invite that lets a user invite themself.
InviteGrant_SelfInvite(in, now, newID) ==
  LET petID == TrimSpace(in.PetID)
      ownerID == TrimSpace(in.OwnerUserID)
      granteeID == TrimSpace(in.GranteeUserID)
  IN IF petID = Runes("") \/ ownerID = Runes("") \/ granteeID = Runes("")
       THEN [g |-> ZeroGrant, err |-> ErrInvalidInput]
     ELSE [g |-> NewGrant(newID, petID, ownerID, granteeID, DefaultScopes, now),
           err |-> Nil]

\* An Invite that takes a list of blank scopes for an empty list.
InviteGrant_BlankGivesDefault(in, now, newID) ==
  LET petID == TrimSpace(in.PetID)
      ownerID == TrimSpace(in.OwnerUserID)
      granteeID == TrimSpace(in.GranteeUserID)
      norm == normalizeScopesStrict(in.Scopes)
      scopes == IF Len(norm.scopes) = 0 THEN DefaultScopes ELSE norm.scopes
  IN IF petID = Runes("") \/ ownerID = Runes("") \/ granteeID = Runes("")
       THEN [g |-> ZeroGrant, err |-> ErrInvalidInput]
     ELSE IF ownerID = granteeID
       THEN [g |-> ZeroGrant, err |-> ErrInvalidInput]
     ELSE IF norm.err # Nil
       THEN [g |-> ZeroGrant, err |-> norm.err]
     ELSE [g |-> NewGrant(newID, petID, ownerID, granteeID, scopes, now),
           err |-> Nil]

\* Service.Invite up to the store write: the grant to create, or the error.
InviteGrant(in, now, newID) ==
  LET petID == TrimSpace(in.PetID)
      ownerID == TrimSpace(in.OwnerUserID)
      granteeID == TrimSpace(in.GranteeUserID)
      norm == normalizeScopesStrict(in.Scopes)
      scopes == IF Len(in.Scopes) = 0 THEN DefaultScopes ELSE norm.scopes
  IN IF petID = Runes("") \/ ownerID = Runes("") \/ granteeID = Runes("")
       THEN [g |-> ZeroGrant, err |-> ErrInvalidInput]
     ELSE IF ownerID = granteeID
       THEN [g |-> ZeroGrant, err |-> ErrInvalidInput]
     ELSE IF Len(in.Scopes) # 0 /\ norm.err # Nil
       THEN [g |-> ZeroGrant, err |-> norm.err]
     ELSE IF Len(in.Scopes) # 0 /\ Len(scopes) = 0
       THEN [g |-> ZeroGrant, err |-> ErrInvalidInput]
     ELSE [g |-> NewGrant(newID, petID, ownerID, granteeID, scopes, now),
           err |-> Nil]

\* A revoke that stamps the grant and leaves its status.
Revoked_KeepStatus(g, now) ==
  [g EXCEPT !.UpdatedAt = now, !.RevokedAt = <<now>>]

\* A revoke that changes the status and leaves revoked_at as it was.
Revoked_NoStamp(g, now) ==
  [g EXCEPT !.Status = StatusRevoked, !.UpdatedAt = now]

\* The copy of g that a revoke writes back.
Revoked(g, now) ==
  [g EXCEPT !.Status = StatusRevoked, !.UpdatedAt = now, !.RevokedAt = <<now>>]

\* An accept that stamps the grant and leaves it invited.
Activated_KeepInvited(g, now) == [g EXCEPT !.UpdatedAt = now]

\* An accept that writes the grant back as created at the instant of the
\* call.
Activated_Recreated(g, now) ==
  [g EXCEPT !.Status = StatusActive, !.UpdatedAt = now, !.CreatedAt = now]

\* The copy of g that an accept writes back.
Activated(g, now) == [g EXCEPT !.Status = StatusActive, !.UpdatedAt = now]

\* A repair pass that revokes only the active duplicates.
RepairTargets_ActiveOnly(items, keepID, petID, granteeID) ==
  {g \in items : /\ g.ID # Runes("") /\ g.ID # keepID
                 /\ g.PetID = petID /\ g.GranteeUserID = granteeID
                 /\ g.Status = StatusActive}

\* An Accept without repair pass.
RepairTargets_None(items, keepID, petID, granteeID) == {}

\* The grants of a listing that the repair pass of Accept goes on to revoke.
RepairTargets(items, keepID, petID, granteeID) ==
  {g \in items : /\ g.ID # Runes("") /\ g.ID # keepID
                 /\ g.PetID = petID /\ g.GranteeUserID = granteeID
                 /\ g.Status # StatusRevoked}

\* Accept without its grantee check.
AcceptDecision_AnyCaller(grantID, granteeUserID, r) ==
  IF grantID = Runes("") \/ granteeUserID = Runes("") THEN ErrInvalidInput
  ELSE IF r.err # Nil THEN ErrNotFound
  ELSE IF r.g.Status = StatusRevoked THEN ErrBadState
  ELSE IF r.g.Status = StatusActive THEN "repair"
  ELSE IF r.g.Status # StatusInvited THEN ErrBadState
  ELSE "activate"

\* Accept that activates a revoked grant again.
AcceptDecision_Resurrect(grantID, granteeUserID, r) ==
  IF grantID = Runes("") \/ granteeUserID = Runes("") THEN ErrInvalidInput
  ELSE IF r.err # Nil THEN ErrNotFound
  ELSE IF r.g.GranteeUserID # granteeUserID THEN ErrForbidden
  ELSE IF r.g.Status = StatusActive THEN "repair"
  ELSE "activate"

\* Accept that activates an active grant again.
AcceptDecision_Reactivate(grantID, granteeUserID, r) ==
  IF grantID = Runes("") \/ granteeUserID = Runes("") THEN ErrInvalidInput
  ELSE IF r.err # Nil THEN ErrNotFound
  ELSE IF r.g.GranteeUserID # granteeUserID THEN ErrForbidden
  ELSE IF r.g.Status = StatusRevoked THEN ErrBadState
  ELSE "activate"

\* Service.Accept from its input checks to the status checks, r being the
\* result of GetByID: the error it returns, or what it goes on to do.
AcceptDecision(grantID, granteeUserID, r) ==
  IF grantID = Runes("") \/ granteeUserID = Runes("") THEN ErrInvalidInput
  ELSE IF r.err # Nil THEN ErrNotFound
  ELSE IF r.g.GranteeUserID # granteeUserID THEN ErrForbidden
  ELSE IF r.g.Status = StatusRevoked THEN ErrBadState
  ELSE IF r.g.Status = StatusActive THEN "repair"
  ELSE IF r.g.Status # StatusInvited THEN ErrBadState
  ELSE "activate"

\* Revoke without its owner check.
RevokeDecision_AnyCaller(grantID, ownerUserID, r) ==
  IF grantID = Runes("") \/ ownerUserID = Runes("") THEN ErrInvalidInput
  ELSE IF r.err # Nil THEN ErrNotFound
  ELSE IF r.g.Status = StatusRevoked THEN "unchanged"
  ELSE "revoke"

\* Revoke without its idempotence check.
RevokeDecision_Again(grantID, ownerUserID, r) ==
  IF grantID = Runes("") \/ ownerUserID = Runes("") THEN ErrInvalidInput
  ELSE IF r.err # Nil THEN ErrNotFound
  ELSE IF r.g.OwnerUserID # ownerUserID THEN ErrForbidden
  ELSE "revoke"

\* Service.Revoke from its input checks to the idempotence check.
RevokeDecision(grantID, ownerUserID, r) ==
  IF grantID = Runes("") \/ ownerUserID = Runes("") THEN ErrInvalidInput
  ELSE IF r.err # Nil THEN ErrNotFound
  ELSE IF r.g.OwnerUserID # ownerUserID THEN ErrForbidden
  ELSE IF r.g.Status = StatusRevoked THEN "unchanged"
  ELSE "revoke"

\* Service.GetActiveGrant: the results it can return.
GetActiveGrant(store, petIDRaw, userRaw) ==
  LET petID == TrimSpace(petIDRaw)
      granteeUserID == TrimSpace(userRaw)
      winners == RepoGetActiveGrant(store, petID, granteeUserID)
  IN IF petID = Runes("") \/ granteeUserID = Runes("")
       THEN {[g |-> ZeroGrant, err |-> ErrInvalidInput]}
     ELSE IF winners = {} THEN {[g |-> ZeroGrant, err |-> ErrNotFound]}
     ELSE {[g |-> w, err |-> Nil] : w \in winners}

ErrPetInvalidInput == "pets: invalid input"

\* pets.Service.OwnerOf over GetByID: the id is trimmed, an empty id is
\* refused, and the pet of the trimmed id is looked up in the repository,
\* whose error is returned as it is.
OwnerOf(petID) ==
  LET id == TrimSpace(petID)
  IN IF id = Runes("")
       THEN [owner |-> Runes(""), err |-> ErrPetInvalidInput]
     ELSE IF id \notin DOMAIN PetOwner
       THEN [owner |-> Runes(""), err |-> MemoryErrNotFound]
     ELSE [owner |-> PetOwner[id], err |-> Nil]

\* The authorization check without the owner bypass.
Authorize_NoBypass(store, userID, petID, scope) ==
  IF TrimSpace(userID) = Runes("") THEN {"unauthorized"}
  ELSE IF OwnerOf(petID).err # Nil THEN {"pet not found"}
  ELSE {IF r.err # Nil \/ ~HasScope(r.g, scope) THEN "forbidden" ELSE "ok" :
          r \in GetActiveGrant(store, petID, userID)}

\* An authorization check that answers a caller without an active grant
\* with the error of GetActiveGrant.
Authorize_TellsNoGrant(store, userID, petID, scope) ==
  IF TrimSpace(userID) = Runes("") THEN {"unauthorized"}
  ELSE IF OwnerOf(petID).err # Nil THEN {"pet not found"}
  ELSE IF OwnerOf(petID).owner = userID THEN {"ok"}
  ELSE {IF r.err # Nil THEN r.err
        ELSE IF ~HasScope(r.g, scope) THEN "forbidden" ELSE "ok" :
          r \in GetActiveGrant(store, petID, userID)}

\* The authorization check of the pet and event handlers: the responses a
\* request of userID needing scope on petID can get from the store as it is.
Authorize(store, userID, petID, scope) ==
  IF TrimSpace(userID) = Runes("") THEN {"unauthorized"}
  ELSE IF OwnerOf(petID).err # Nil THEN {"pet not found"}
  ELSE IF OwnerOf(petID).owner = userID THEN {"ok"}
  ELSE {IF r.err # Nil \/ ~HasScope(r.g, scope) THEN "forbidden" ELSE "ok" :
          r \in GetActiveGrant(store, petID, userID)}

\* -------------------------------------------------------------- requests
ZeroInvite == Invitation(Runes(""), Runes(""), Runes(""), <<>>)

\* The locals of a request between two store calls; wrote: a store write of
\* this call has changed the store; ov: the call has overlapped another call;
\* failed: a revoke-update of the repair pass of this call has failed; in:
\* the invitation of an Invite.
ZeroLoc == [g |-> ZeroGrant, now |-> 0, items |-> {}, grantID |-> Runes(""),
            user |-> Runes(""), st0 |-> "", wrote |-> FALSE, ov |-> FALSE,
            failed |-> FALSE, in |-> ZeroInvite]

\* The record of a returned call: its operation and arguments, the error and
\* grant it returned, the status GetByID read (st0), whether its writes
\* changed the store, whether it overlapped another call, (rep) whether it
\* repeats the call that returned before it, which succeeded, and (prev), for
\* a call made on the store directly, the operation and the error of the call
\* made before it.
Summary(op, grantID, user, in, err, ret, st0, changed, ov) ==
  [op |-> op, grantID |-> grantID, user |-> user, in |-> in, err |-> err,
   ret |-> ret, st0 |-> st0, changed |-> changed, ov |-> ov, rep |-> FALSE,
   prev |-> <<>>]

ZeroSummary ==
  Summary("", Runes(""), Runes(""), ZeroInvite, Nil, ZeroGrant, "", FALSE, FALSE)

SameCall(a, s) ==
  /\ a.op = s.op
  /\ a.err = Nil
  /\ TrimSpace(a.grantID) = TrimSpace(s.grantID)
  /\ TrimSpace(a.user) = TrimSpace(s.user)
  /\ TrimSpace(a.in.PetID) = TrimSpace(s.in.PetID)
  /\ TrimSpace(a.in.OwnerUserID) = TrimSpace(s.in.OwnerUserID)
  /\ TrimSpace(a.in.GranteeUserID) = TrimSpace(s.in.GranteeUserID)

InFlight(p) == pc[p] # "idle"

\* Request p returns: it becomes idle and the call is recorded.
Return(p, s) ==
  /\ pc' = [pc EXCEPT ![p] = "idle"]
  /\ loc' = [loc EXCEPT ![p] = ZeroLoc]
  /\ last' = [s EXCEPT !.rep = SameCall(last, s)]

\* Request p goes on to its next store call at label with locals l.
Goto(p, label, l) ==
  /\ pc' = [pc EXCEPT ![p] = label]
  /\ loc' = [loc EXCEPT ![p] = l]
  /\ last' = last

\* Request p starts a call that needs further store calls: the requests in
\* flight and p now overlap.
Start(p, label, l) ==
  LET busy == \E q \in Procs : q # p /\ InFlight(q)
  IN /\ pc' = [pc EXCEPT ![p] = label]
     /\ loc' = [q \in Procs |->
                  IF q = p THEN [l EXCEPT !.ov = busy]
                  ELSE IF InFlight(q) THEN [loc[q] EXCEPT !.ov = TRUE]
                  ELSE loc[q]]
     /\ last' = last

\* A call that returns from its first step overlaps the requests in flight.
Busy(p) == \E q \in Procs : q # p /\ InFlight(q)

\* The errors a store read can end with: none with the in-memory store, a
\* database error with the relational one.
StoreErrs == IF faulty THEN {Nil, ErrStore} ELSE {Nil}

\* How a store write can go. "done": it is carried out and its own result is
\* returned, the one way of the in-memory store. With the relational store
\* ExecContext can also return an error, and the store cannot tell which of
\* two things happened: "failed", the statement took no effect, or
\* "unacknowledged", the statement took effect and its reply never arrived
\* (the context of the request ended, the connection was lost).
WriteFaults ==
  IF faulty THEN {"done", "failed", "unacknowledged"} ELSE {"done"}

\* The store write w on store, going the way f.
WriteOr(f, store, w) ==
  IF f = "done" THEN w
  ELSE IF f = "failed" THEN [store |-> store, err |-> ErrStore]
  ELSE [store |-> w.store, err |-> ErrStore]

\* A GetByID that fails with f, or else reads r.
ReadOr(f, r) == IF f # Nil THEN [g |-> ZeroGrant, err |-> f] ELSE r

\* The grants Invite may store: the bound of the executions in hand.
GrantCap == IF faulty THEN MaxFaultyGrants ELSE MaxGrants

\* An Accept that returns the error of its repair pass.
AcceptResult_Propagate(g, repairErr) ==
  IF repairErr # Nil THEN [g |-> ZeroGrant, err |-> repairErr]
  ELSE [g |-> g, err |-> Nil]

\* What Accept returns after its repair pass: the error of the pass is dropped.
AcceptResult(g, repairErr) == [g |-> g, err |-> Nil]

\* A repair pass that gives up at the first revoke-update that fails.
LoopRest_StopOnError(items, d, err) == IF err # Nil THEN {} ELSE items \ {d}

\* The duplicates left to the loop of the repair pass after the revoke-update
\* of d ended with err: the error is dropped.
LoopRest(items, d, err) == items \ {d}

Init ==
  /\ byID = <<>>
  /\ clock = 1
  /\ pc = [p \in Procs |-> "idle"]
  /\ loc = [p \in Procs |-> ZeroLoc]
  /\ last = ZeroSummary
  /\ faulty = FALSE

\* The engine over a store whose calls can fail.
InitFaulty ==
  /\ byID = <<>>
  /\ clock = 1
  /\ pc = [p \in Procs |-> "idle"]
  /\ loc = [p \in Procs |-> ZeroLoc]
  /\ last = ZeroSummary
  /\ faulty = TRUE

\* time.Now() advances between any two steps.
Tick ==
  /\ clock < MaxTime
  /\ clock' = clock + 1
  /\ UNCHANGED <<byID, pc, loc, last, faulty>>

\* The requests that have built a grant and not yet stored it.
Creating == {q \in Procs : pc[q] \in {"inv_create", "route_create"}}

\* uuid.NewString(): an identifier that no stored grant and no grant about to
\* be stored has, the first such one of the pool.
NewID ==
  LET used == DOMAIN byID \cup {loc[q].g.ID : q \in Creating}
      free == {i \in 1..Len(GrantIDPool) : GrantIDPool[i] \notin used}
  IN IF free = {} THEN Runes("")
     ELSE GrantIDPool[CHOOSE i \in free : \A j \in free : i <= j]

\* Invite may build one more grant: the bound of the executions in hand.
MayCreate == Cardinality(DOMAIN byID) + Cardinality(Creating) < GrantCap

\* Service.Invite up to repo.Create: validation, s.now(), uuid.NewString()
\* and the Grant literal.
Invite(p, in) ==
  /\ pc[p] = "idle"
  /\ LET r == InviteGrant(in, clock, NewID)
     IN IF r.err # Nil
          THEN Return(p, Summary("invite", Runes(""), Runes(""), in, r.err, ZeroGrant, "",
                                 FALSE, Busy(p)))
        ELSE /\ MayCreate
             /\ Start(p, "inv_create",
                      [ZeroLoc EXCEPT !.g = r.g, !.now = clock, !.in = in])
  /\ UNCHANGED <<byID, clock, faulty>>

\* Service.Invite: repo.Create of the grant it built.
InviteCreate(p) ==
  /\ pc[p] = "inv_create"
  /\ \E f \in WriteFaults :
       LET l == loc[p]
           c == WriteOr(f, byID, RepoCreate(byID, l.g))
       IN /\ byID' = c.store
          /\ Return(p, Summary("invite", Runes(""), Runes(""), l.in, c.err,
                               IF c.err = Nil THEN l.g ELSE ZeroGrant,
                               "", c.store # byID, l.ov))
  /\ UNCHANGED <<clock, faulty>>

\* Service.Accept up to s.now(): the input checks, GetByID, and the grantee
\* and revoked checks.
AcceptRead(p, grantIDRaw, userRaw) ==
  /\ pc[p] = "idle"
  /\ \E f \in StoreErrs :
       LET grantID == TrimSpace(grantIDRaw)
           granteeUserID == TrimSpace(userRaw)
           r == ReadOr(f, RepoGetByID(byID, grantID))
           g == r.g
           fail(err, st0) ==
             Return(p, Summary("accept", grantIDRaw, userRaw, ZeroInvite, err,
                               ZeroGrant, st0, FALSE, Busy(p)))
           l == [ZeroLoc EXCEPT !.g = g, !.grantID = grantIDRaw,
                                !.user = userRaw, !.st0 = g.Status]
           d == AcceptDecision(grantID, granteeUserID, r)
       IN IF d \in {"repair", "activate"} THEN Start(p, "acc_now", l)
          ELSE fail(d, g.Status)
  /\ UNCHANGED <<byID, clock, faulty>>

\* Service.Accept: s.now() and the status checks that follow it, then the
\* repair pass alone for a grant read as active, or the activated copy of a
\* grant read as invited.
AcceptNow(p) ==
  /\ pc[p] = "acc_now"
  /\ LET l == [loc[p] EXCEPT !.now = clock]
         d == AcceptDecision(TrimSpace(l.grantID), TrimSpace(l.user),
                             [g |-> l.g, err |-> Nil])
     IN IF d = "repair" THEN Goto(p, "acc_list", l)
        ELSE Goto(p, "acc_update", [l EXCEPT !.g = Activated(l.g, clock)])
  /\ UNCHANGED <<byID, clock, faulty>>

\* Service.Accept: repo.Update of the activated grant.
AcceptUpdate(p) ==
  /\ pc[p] = "acc_update"
  /\ \E f \in WriteFaults :
       LET u == WriteOr(f, byID, RepoUpdate(byID, loc[p].g))
           l == loc[p]
       IN /\ byID' = u.store
          /\ IF u.err # Nil
               THEN Return(p, Summary("accept", l.grantID, l.user, ZeroInvite,
                                      u.err, ZeroGrant, l.st0, u.store # byID,
                                      l.ov))
             ELSE Goto(p, "acc_list", [l EXCEPT !.wrote = (u.store # byID)])
  /\ UNCHANGED <<clock, faulty>>

\* revokeOtherByPetAndGrantee: repo.ListByPet, and the filters of the loop
\* applied to the listing. Accept returns here when the listing fails or
\* nothing is left to revoke.
AcceptList(p) ==
  /\ pc[p] = "acc_list"
  /\ \E f \in StoreErrs :
       LET l == loc[p]
           g == l.g
           todo == IF f # Nil THEN {}
                   ELSE RepairTargets(RepoListByPet(byID, g.PetID), g.ID,
                                      g.PetID, g.GranteeUserID)
           res == AcceptResult(g, f)
       IN IF todo = {}
            THEN Return(p, Summary("accept", l.grantID, l.user, ZeroInvite,
                                   res.err, res.g, l.st0, l.wrote, l.ov))
          ELSE Goto(p, "acc_loop", [l EXCEPT !.items = todo])
  /\ UNCHANGED <<byID, clock, faulty>>

\* revokeOtherByPetAndGrantee: one repo.Update of the loop, its error dropped.
\* Accept returns after the last one.
AcceptRevokeOther(p) ==
  /\ pc[p] = "acc_loop"
  /\ \E d \in loc[p].items, f \in WriteFaults :
       LET l == loc[p]
           u == WriteOr(f, byID, RepoUpdate(byID, Revoked(d, l.now)))
           rest == LoopRest(l.items, d, u.err)
           wrote == l.wrote \/ u.store # byID
           failed == l.failed \/ u.err # Nil
           res == AcceptResult(l.g, Nil)
       IN /\ byID' = u.store
          /\ IF rest = {}
               THEN Return(p, Summary("accept", l.grantID, l.user, ZeroInvite,
                                      res.err, res.g, l.st0, wrote, l.ov))
             ELSE Goto(p, "acc_loop", [l EXCEPT !.items = rest, !.wrote = wrote,
                                                !.failed = failed])
  /\ UNCHANGED <<clock, faulty>>

\* Service.Revoke up to s.now(): the input checks, GetByID, the owner check
\* and the idempotent return.
RevokeRead(p, grantIDRaw, userRaw) ==
  /\ pc[p] = "idle"
  /\ \E f \in StoreErrs :
       LET grantID == TrimSpace(grantIDRaw)
           ownerUserID == TrimSpace(userRaw)
           r == ReadOr(f, RepoGetByID(byID, grantID))
           g == r.g
           done(err, ret, st0) ==
             Return(p, Summary("revoke", grantIDRaw, userRaw, ZeroInvite, err,
                               ret, st0, FALSE, Busy(p)))
           d == RevokeDecision(grantID, ownerUserID, r)
       IN IF d = "unchanged" THEN done(Nil, g, g.Status)
          ELSE IF d = "revoke"
            THEN Start(p, "rev_now",
                       [ZeroLoc EXCEPT !.g = g, !.grantID = grantIDRaw,
                                       !.user = userRaw, !.st0 = g.Status])
          ELSE done(d, ZeroGrant, g.Status)
  /\ UNCHANGED <<byID, clock, faulty>>

\* Service.Revoke: s.now() and the revoked copy of the grant it read.
RevokeNow(p) ==
  /\ pc[p] = "rev_now"
  /\ Goto(p, "rev_update",
          [loc[p] EXCEPT !.now = clock, !.g = Revoked(loc[p].g, clock)])
  /\ UNCHANGED <<byID, clock, faulty>>

\* Service.Revoke: repo.Update of the revoked grant.
RevokeUpdate(p) ==
  /\ pc[p] = "rev_update"
  /\ \E f \in WriteFaults :
       LET l == loc[p]
           u == WriteOr(f, byID, RepoUpdate(byID, l.g))
       IN /\ byID' = u.store
          /\ Return(p, Summary("revoke", l.grantID, l.user, ZeroInvite,
                               u.err, IF u.err = Nil THEN l.g ELSE ZeroGrant,
                               l.st0, u.store # byID, l.ov))
  /\ UNCHANGED <<clock, faulty>>

AllIdle == \A p \in Procs : pc[p] = "idle"

\* The request slot a new request takes: the slots are interchangeable, so the
\* lowest free one.
Free(p) == ~InFlight(p) /\ \A q \in Procs : q < p => InFlight(q)

\* Requests arrive at any time and interleave between their store calls.
Next ==
  \/ Tick
  \/ \E p \in Procs, in \in RaceInviteInputs : Free(p) /\ Invite(p, in)
  \/ \E p \in Procs : InviteCreate(p)
  \/ \E p \in Procs, id \in GrantIDInputs, u \in RaceGranteeInputs :
       Free(p) /\ AcceptRead(p, id, u)
  \/ \E p \in Procs : AcceptNow(p)
  \/ \E p \in Procs : AcceptUpdate(p)
  \/ \E p \in Procs : AcceptList(p)
  \/ \E p \in Procs : AcceptRevokeOther(p)
  \/ \E p \in Procs, id \in GrantIDInputs, u \in RaceOwnerInputs :
       Free(p) /\ RevokeRead(p, id, u)
  \/ \E p \in Procs : RevokeNow(p)
  \/ \E p \in Procs : RevokeUpdate(p)

Spec == Init /\ [][Next]_vars

\* Settled executions: a call starts only when every earlier call has returned.
NextSeq ==
  \/ Tick
  \/ AllIdle /\ \E in \in InviteInputs : Invite(1, in)
  \/ \E p \in Procs : InviteCreate(p)
  \/ AllIdle /\ \E id \in GrantIDInputs, u \in CallerInputs : AcceptRead(1, id, u)
  \/ \E p \in Procs : AcceptNow(p)
  \/ \E p \in Procs : AcceptUpdate(p)
  \/ \E p \in Procs : AcceptList(p)
  \/ \E p \in Procs : AcceptRevokeOther(p)
  \/ AllIdle /\ \E id \in GrantIDInputs, u \in CallerInputs : RevokeRead(1, id, u)
  \/ \E p \in Procs : RevokeNow(p)
  \/ \E p \in Procs : RevokeUpdate(p)

SpecSeq == Init /\ [][NextSeq]_vars

\* Settled executions for one (pet, grantee) pair over a store whose calls
\* can fail.
NextFaulty ==
  \/ Tick
  \/ AllIdle /\ \E in \in RaceInviteInputs : Invite(1, in)
  \/ \E p \in Procs : InviteCreate(p)
  \/ AllIdle /\ \E id \in FaultyGrantIDInputs, u \in RaceGranteeInputs :
                  AcceptRead(1, id, u)
  \/ \E p \in Procs : AcceptNow(p)
  \/ \E p \in Procs : AcceptUpdate(p)
  \/ \E p \in Procs : AcceptList(p)
  \/ \E p \in Procs : AcceptRevokeOther(p)
  \/ AllIdle /\ \E id \in FaultyGrantIDInputs, u \in RaceOwnerInputs :
                  RevokeRead(1, id, u)
  \/ \E p \in Procs : RevokeNow(p)
  \/ \E p \in Procs : RevokeUpdate(p)

SpecFaulty == InitFaulty /\ [][NextFaulty]_vars

\* Executions that only invite, one call after another.
NextInvite ==
  \/ Tick
  \/ \E in \in ScopeInviteInputs : Invite(1, in)
  \/ InviteCreate(1)

SpecInvite == Init /\ [][NextInvite]_vars

\* Interleaved executions in which the owner invites and never revokes.
NextAccept ==
  \/ Tick
  \/ \E p \in Procs, in \in RaceInviteInputs : Free(p) /\ Invite(p, in)
  \/ \E p \in Procs : InviteCreate(p)
  \/ \E p \in Procs, id \in GrantIDInputs, u \in RaceGranteeInputs :
       Free(p) /\ AcceptRead(p, id, u)
  \/ \E p \in Procs : AcceptNow(p)
  \/ \E p \in Procs : AcceptUpdate(p)
  \/ \E p \in Procs : AcceptList(p)
  \/ \E p \in Procs : AcceptRevokeOther(p)

SpecAccept == Init /\ [][NextAccept]_vars

\* inviteGrantRequest: the body of an invite request.
inviteGrantRequest(granteeUserID, scopes) ==
  [GranteeUserID |-> granteeUserID, Scopes |-> scopes]

\* The values of a JSON document; the members of an object are the pairs
\* <<name, value>> in the order they are written in.
JString(s) == [t |-> "string", v |-> s]
JNumber(n) == [t |-> "number", v |-> n]
JArray(a) == [t |-> "array", v |-> a]
JObject(members) == [t |-> "object", v |-> members]
JNull == [t |-> "null", v |-> <<>>]

\* A request body: a JSON value, or text that is not JSON.
JSONBody(value) == [json |-> TRUE, value |-> value]
MalformedBody == [json |-> FALSE, value |-> JNull]

\* Rune r and the ASCII character a are equal under Unicode case folding:
\* a letter and its other case, and besides them the Kelvin sign U+212A with
\* k and the long s U+017F with s.
SameFold(r, a) ==
  \/ r = a
  \/ a \in 97..122 /\ r = a - 32
  \/ a \in 65..90 /\ r = a + 32
  \/ a \in {75, 107} /\ r = 8490
  \/ a \in {83, 115} /\ r = 383

\* The member name key selects the field whose JSON name is the ASCII name:
\* encoding/json takes the exact name or else a name equal under case
\* folding.
EqualFold(key, name) ==
  /\ Len(key) = Len(name)
  /\ \A k \in 1..Len(name) : SameFold(key[k], name[k])

\* The value v decoded into the field GranteeUserID holding cur: a string is
\* stored, null leaves the field alone, any other value is a type error.
DecodeString(v, cur) ==
  IF v.t = "string" THEN [val |-> v.v, bad |-> FALSE]
  ELSE [val |-> cur, bad |-> v.t # "null"]

\* The value v decoded into the field Scopes holding cur, a slice over the
\* array arr, of which cur is the beginning and the rest is what longer lists
\* decoded earlier have left behind. An array with entries is decoded into
\* the slice in place: each string of it is stored, while an entry that is
\* null or, a type error, of another type leaves in place what the array
\* holds there, also beyond the end of cur, and the zero Scope beyond the end
\* of the array; the list gets the length of the array of the document. An
\* empty array gives a new empty slice and null the nil slice; any other
\* value is a type error and leaves the field alone.
DecodeScopes(v, cur, arr) ==
  IF v.t = "array" /\ Len(v.v) > 0
    THEN LET n == Len(v.v)
             m == IF Len(arr) > n THEN Len(arr) ELSE n
             filled == [k \in 1..m |->
                          IF k <= n /\ v.v[k].t = "string" THEN v.v[k].v
                          ELSE IF k <= Len(arr) THEN arr[k]
                          ELSE Runes("")]
         IN [val |-> SubSeq(filled, 1, n), arr |-> filled,
             bad |-> \E k \in 1..n : v.v[k].t \notin {"string", "null"}]
  ELSE IF v.t \in {"array", "null"}
    THEN [val |-> <<>>, arr |-> <<>>, bad |-> FALSE]
  ELSE [val |-> cur, arr |-> arr, bad |-> TRUE]

\* The members of a JSON object decoded one after another into req, from
\* member i on; arr: the array the slice req.Scopes lies over; bad: a member
\* decoded so far had a value of the wrong type. A later member of a name
\* overrides an earlier one, a member that selects no field is skipped, and
\* decoding goes on after a type error.
RECURSIVE DecodeMembers(_, _, _, _, _)
DecodeMembers(members, i, req, arr, bad) ==
  IF i > Len(members) THEN [req |-> req, bad |-> bad]
  ELSE LET key == members[i][1]
           v == members[i][2]
           ds == DecodeString(v, req.GranteeUserID)
           dc == DecodeScopes(v, req.Scopes, arr)
       IN IF EqualFold(key, Runes("grantee_user_id"))
            THEN DecodeMembers(members, i + 1,
                               [req EXCEPT !.GranteeUserID = ds.val], arr,
                               bad \/ ds.bad)
          ELSE IF EqualFold(key, Runes("scopes"))
            THEN DecodeMembers(members, i + 1,
                               [req EXCEPT !.Scopes = dc.val], dc.arr,
                               bad \/ dc.bad)
          ELSE DecodeMembers(members, i + 1, req, arr, bad)

\* json.Decoder.Decode into an inviteGrantRequest: text that is not JSON, a
\* value that is neither an object nor null, and a member of another type
\* than its field are errors.
Decode(body) ==
  LET zero == inviteGrantRequest(Runes(""), <<>>)
      invalid == [req |-> zero, err |-> "invalid json"]
      d == DecodeMembers(body.value.v, 1, zero, <<>>, FALSE)
  IN IF ~body.json THEN invalid
     ELSE IF body.value.t = "null" THEN [req |-> zero, err |-> Nil]
     ELSE IF body.value.t # "object" THEN invalid
     ELSE IF d.bad THEN invalid
     ELSE [req |-> d.req, err |-> Nil]

\* The invite requests of the route: the callers (the owner, the owner's id
\* with white space around it, another user, nobody), the pets (one of alice,
\* its id with white space around it, and one that does not exist) and the
\* bodies.
RouteCallers ==
  {Runes("alice"), Runes(" alice "), Runes("bob"), Runes("")}
RoutePets == {Runes("p1"), <<160>> \o Runes("p1\t"), Runes("p9")}
RouteBodies ==
  { JSONBody(JObject(<< <<Runes("grantee_user_id"), JString(Runes("bob"))>> >>)),
    JSONBody(JObject(<< <<Runes("Grantee_User_Id"),
                          JString(<<11>> \o Runes("bob "))>>,
                        <<Runes("SCOPES"), JArray(<<JString(ScopeEventsRead)>>)>> >>)),
    JSONBody(JObject(<< <<Runes("grantee_user_id"), JString(Runes("bob"))>>,
                        <<Runes("grantee_u") \o <<383>> \o Runes("er_id"),
                          JString(Runes("carol"))>> >>)),
    JSONBody(JObject(<< <<Runes("scopes"), JArray(<<JString(ScopePetRead)>>)>> >>)),
    JSONBody(JObject(<< <<Runes("Scopes"), JNumber(7)>>,
                        <<Runes("grantee_user_id"), JString(Runes("bob"))>> >>)),
    JSONBody(JObject(<< <<Runes("grantee_user_id"), JString(Runes("bob"))>>,
                        <<Runes("scopes"), JArray(<<JString(ScopeEventsCreate),
                                                    JString(ScopeEventsRead)>>)>>,
                        <<Runes("scopes"), JArray(<<JString(ScopePetRead)>>)>>,
                        <<Runes("scopes"), JArray(<<JNull, JNull>>)>> >>)),
    JSONBody(JNull),
    JSONBody(JArray(<<JString(Runes("bob"))>>)),
    MalformedBody }

\* An invite route that lets any identified caller invite on a pet.
InviteGuard_AnyCaller(userID, petID, body) ==
  LET o == OwnerOf(petID)
      d == Decode(body)
  IN IF TrimSpace(userID) = Runes("") THEN "unauthorized"
     ELSE IF o.err # Nil \/ TrimSpace(o.owner) = Runes("") THEN "pet not found"
     ELSE IF d.err # Nil THEN "invalid json"
     ELSE IF TrimSpace(d.req.GranteeUserID) = Runes("") THEN "grantee_user_id required"
     ELSE Nil

\* inviteGrantHandler up to the call of Service.Invite: the response that
\* ends the request, or Nil when the request goes on to the engine.
InviteGuard(userID, petID, body) ==
  LET o == OwnerOf(petID)
      d == Decode(body)
  IN IF TrimSpace(userID) = Runes("") THEN "unauthorized"
     ELSE IF o.err # Nil \/ TrimSpace(o.owner) = Runes("") THEN "pet not found"
     ELSE IF o.owner # userID THEN "forbidden"
     ELSE IF d.err # Nil THEN "invalid json"
     ELSE IF TrimSpace(d.req.GranteeUserID) = Runes("") THEN "grantee_user_id required"
     ELSE Nil

\* inviteGrantHandler: the response for the error Service.Invite returned.
InviteResponse(err) ==
  IF err = Nil THEN Nil
  ELSE IF err = ErrInvalidInput THEN ErrInvalidInput
  ELSE "internal error"

\* inviteGrantHandler up to repo.Create: the guard, and Service.Invite with
\* the caller as owner up to the grant it builds. The call is recorded with
\* the caller, the request as the handler passes it on, and the response in
\* place of the error.
inviteGrantHandler(p, userID, petID, body) ==
  /\ pc[p] = "idle"
  /\ LET deny == InviteGuard(userID, petID, body)
         req == Decode(body).req
         in == Invitation(petID, userID, TrimSpace(req.GranteeUserID),
                          req.Scopes)
         r == InviteGrant(in, clock, NewID)
         done(resp) ==
           Return(p, Summary("invite_route", petID, userID,
                             IF deny # Nil THEN ZeroInvite ELSE in, resp,
                             ZeroGrant, "", FALSE, Busy(p)))
     IN IF deny # Nil THEN done(deny)
        ELSE IF r.err # Nil THEN done(InviteResponse(r.err))
        ELSE /\ MayCreate
             /\ Start(p, "route_create",
                      [ZeroLoc EXCEPT !.g = r.g, !.now = clock, !.in = in,
                                      !.grantID = petID, !.user = userID])
  /\ UNCHANGED <<byID, clock, faulty>>

\* inviteGrantHandler: repo.Create of the grant Service.Invite built, and the
\* response.
inviteGrantCreate(p) ==
  /\ pc[p] = "route_create"
  /\ \E f \in WriteFaults :
       LET l == loc[p]
           c == WriteOr(f, byID, RepoCreate(byID, l.g))
       IN /\ byID' = c.store
          /\ Return(p, Summary("invite_route", l.grantID, l.user, l.in,
                               InviteResponse(c.err),
                               IF c.err = Nil THEN l.g ELSE ZeroGrant,
                               "", c.store # byID, l.ov))
  /\ UNCHANGED <<clock, faulty>>

\* Settled executions in which grants are created through the invite route
\* only.
NextRoute ==
  \/ Tick
  \/ AllIdle /\ \E u \in RouteCallers, petID \in RoutePets, body \in RouteBodies :
                  inviteGrantHandler(1, u, petID, body)
  \/ \E p \in Procs : inviteGrantCreate(p)
  \/ AllIdle /\ \E id \in GrantIDInputs, u \in CallerInputs : AcceptRead(1, id, u)
  \/ \E p \in Procs : AcceptNow(p)
  \/ \E p \in Procs : AcceptUpdate(p)
  \/ \E p \in Procs : AcceptList(p)
  \/ \E p \in Procs : AcceptRevokeOther(p)
  \/ AllIdle /\ \E id \in GrantIDInputs, u \in CallerInputs : RevokeRead(1, id, u)
  \/ \E p \in Procs : RevokeNow(p)
  \/ \E p \in Procs : RevokeUpdate(p)

SpecRoute == Init /\ [][NextRoute]_vars

\* The grants handed to the store directly: no id or one of two ids, each
\* status, each updated_at, for one (pet, owner, grantee) triple.
StoreGrants ==
  {[ID |-> id, PetID |-> Runes("p1"), OwnerUserID |-> Runes("alice"),
    GranteeUserID |-> Runes("bob"), Scopes |-> DefaultScopes, Status |-> st,
    CreatedAt |-> 1, UpdatedAt |-> t,
    RevokedAt |-> IF st = StatusRevoked THEN <<t>> ELSE <<>>] :
     id \in {Runes(""), Runes("g1"), Runes("g2")},
     st \in {StatusInvited, StatusActive, StatusRevoked},
     t \in 1..MaxTime}

\* A call made on the store directly returns: it is recorded with the
\* operation and the error of the call made before it.
StoreReturn(s) ==
  /\ last' = [s EXCEPT !.rep = SameCall(last, s),
                       !.prev = <<last.op, last.err>>]
  /\ UNCHANGED <<pc, loc>>

\* A caller of the store runs Create(g): the call is recorded with g as the
\* grant it was about.
Create(g) ==
  /\ pc[1] = "idle"
  /\ LET c == RepoCreate(byID, g)
     IN /\ byID' = c.store
        /\ StoreReturn(Summary("create", g.ID, Runes(""), ZeroInvite, c.err, g,
                               "", c.store # byID, FALSE))
  /\ UNCHANGED <<clock, faulty>>

\* A caller of the store runs Update(g).
Update(g) ==
  /\ pc[1] = "idle"
  /\ LET u == RepoUpdate(byID, g)
     IN /\ byID' = u.store
        /\ StoreReturn(Summary("update", g.ID, Runes(""), ZeroInvite, u.err, g,
                               "", u.store # byID, FALSE))
  /\ UNCHANGED <<clock, faulty>>

\* The store on its own, under any sequence of Create and Update calls.
NextStore ==
  \/ \E g \in StoreGrants : Create(g)
  \/ \E g \in StoreGrants : Update(g)

SpecStore == Init /\ [][NextStore]_vars

\* ------------------------------------------------------------- properties
Grants == {byID[i] : i \in DOMAIN byID}
PetIDs == DOMAIN PetOwner
Users == {Runes("alice"), Runes("bob"), Runes("carol")}

SamePair(g, h) == g.PetID = h.PetID /\ g.GranteeUserID = h.GranteeUserID

ActiveFor(petID, userID) ==
  {g \in Grants : /\ g.PetID = petID /\ g.GranteeUserID = userID
                  /\ g.Status = StatusActive}

\* The grant of the store that the last returned call was about.
LastGrant == byID[TrimSpace(last.grantID)]
LastOn(op) == last.op = op /\ TrimSpace(last.grantID) \in DOMAIN byID

\* C1: whenever every Invite, Accept and Revoke call of a settled execution
\* has returned, no (pet, grantee) pair has more than one active grant.
C1_OneActivePerPairSettled ==
  AllIdle => \A petID \in PetIDs, userID \in Users :
               Cardinality(ActiveFor(petID, userID)) <= 1

\* An Accept has returned after its repair pass revoked another grant of the
\* pair.
C1_Witness ==
  /\ AllIdle
  /\ LastOn("accept") /\ last.err = Nil /\ last.changed
  /\ LastGrant.Status = StatusActive
  /\ \E h \in Grants : /\ h.ID # LastGrant.ID /\ SamePair(h, LastGrant)
                       /\ h.Status = StatusRevoked /\ h.RevokedAt = <<LastGrant.UpdatedAt>>

\* C2: when the calls for one (pet, grantee) pair interleave between their
\* store calls, once all of them have returned no two different grants of
\* the pair are active.
C2_OneActiveAfterRace ==
  AllIdle => \A g \in Grants, h \in Grants :
               (SamePair(g, h) /\ g.Status = StatusActive /\ h.Status = StatusActive)
                 => g.ID = h.ID

\* Two Accept calls of different grants of one pair have overlapped and both
\* have returned success.
C2_Witness ==
  /\ AllIdle
  /\ LastOn("accept") /\ last.err = Nil /\ last.ov /\ last.st0 = StatusInvited
  /\ \E h \in Grants : /\ h.ID # LastGrant.ID /\ SamePair(h, LastGrant)
                       /\ h.Status = StatusRevoked
  /\ LastGrant.Status = StatusRevoked

\* C3: a stored grant that is revoked stays revoked in every step.
C3_RevokedIsTerminal ==
  [][\A id \in DOMAIN byID :
       byID[id].Status = StatusRevoked => byID'[id].Status = StatusRevoked]_vars

\* C4: while the last call to return is a successful Revoke of g and no other
\* grant of g's pair is active, every authorization check of g's grantee on
\* g's pet is denied, for every scope.
C4_RevokeDeniesNextCheck ==
  (last.op = "revoke" /\ last.err = Nil) =>
    LET g == last.ret
    IN (\A h \in ActiveFor(g.PetID, g.GranteeUserID) : h.ID = g.ID) =>
         \A scope \in Allowed :
           Authorize(byID, g.GranteeUserID, g.PetID, scope) = {"forbidden"}

\* g is the only grant of its pair and its grantee does not own the pet.
SoleDelegation(g) ==
  /\ g.GranteeUserID # PetOwner[g.PetID]
  /\ \A h \in Grants : SamePair(g, h) => h.ID = g.ID

\* C5: in a settled execution, for a grant g carrying pet:read that is the
\* only grant of a non-owner grantee on the pet, the check for pet:read is
\* denied while g is invited, allowed once the grantee's Accept of g has
\* returned, and denied once the owner's Revoke of g has returned.
C5_InviteAcceptRevokeScenario ==
  \A g \in Grants :
    (SoleDelegation(g) /\ HasScope(g, ScopePetRead)) =>
      LET check == Authorize(byID, g.GranteeUserID, g.PetID, ScopePetRead)
      IN /\ g.Status = StatusInvited => check = {"forbidden"}
         /\ (LastOn("accept") /\ last.err = Nil /\ LastGrant.ID = g.ID)
              => check = {"ok"}
         /\ (LastOn("revoke") /\ last.err = Nil /\ LastGrant.ID = g.ID)
              => check = {"forbidden"}

\* The owner has revoked a sole grant with pet:read that the grantee had
\* accepted, and the check is denied.
C5_Witness ==
  /\ AllIdle
  /\ LastOn("revoke") /\ last.err = Nil /\ last.st0 = StatusActive
  /\ SoleDelegation(LastGrant) /\ HasScope(LastGrant, ScopePetRead)
  /\ Authorize(byID, LastGrant.GranteeUserID, LastGrant.PetID, ScopePetRead)
       = {"forbidden"}

NonOwners(petID) == Users \ {PetOwner[petID]}

\* C6 as stated: for a non-owner the check allows exactly when the store
\* holds an active grant of the pair that contains the scope.
C6_AllowsIffSomeActiveGrantHasScope ==
  \A petID \in PetIDs, scope \in Allowed :
    \A userID \in NonOwners(petID) :
      (Authorize(byID, userID, petID, scope) = {"ok"})
        <=> (\E g \in ActiveFor(petID, userID) : HasScope(g, scope))

\* C6 amended: for a non-owner the check allows only if an active grant of
\* the pair contains the scope (invited and revoked grants confer nothing),
\* and where the pair has at most one active grant it allows exactly then;
\* an active grant with scopes {events:read} alone denies events:create.
C6_AllowsOnlyByActiveGrant ==
  \A petID \in PetIDs, scope \in Allowed :
    \A userID \in NonOwners(petID) :
      LET check == Authorize(byID, userID, petID, scope)
          have == \E g \in ActiveFor(petID, userID) : HasScope(g, scope)
      IN /\ check \subseteq {"ok", "forbidden"}
         /\ "ok" \in check => have
         /\ Cardinality(ActiveFor(petID, userID)) <= 1
              => (check = {"ok"} <=> have)
         /\ (scope = ScopeEventsCreate
             /\ \A g \in ActiveFor(petID, userID) : g.Scopes = <<ScopeEventsRead>>)
              => check = {"forbidden"}

\* A grantee holds an active grant with scopes {events:read} only, next to a
\* revoked grant of the same pair that carries pet:read.
C6_Witness ==
  \E g \in Grants, h \in Grants :
    /\ SamePair(g, h)
    /\ g.Status = StatusActive /\ g.Scopes = <<ScopeEventsRead>>
    /\ h.Status = StatusRevoked /\ HasScope(h, ScopePetRead)
    /\ Authorize(byID, g.GranteeUserID, g.PetID, ScopeEventsRead) = {"ok"}
    /\ Authorize(byID, g.GranteeUserID, g.PetID, ScopeEventsCreate) = {"forbidden"}
    /\ Authorize(byID, g.GranteeUserID, g.PetID, ScopePetRead) = {"forbidden"}

\* C7: the check of a pet's owner on the pet allows, for every scope.
C7_OwnerBypass ==
  \A petID \in PetIDs, scope \in Allowed :
    Authorize(byID, PetOwner[petID], petID, scope) = {"ok"}

\* Every grant on a pet is revoked, and there is one.
C7_Witness ==
  \E petID \in PetIDs :
    /\ \E g \in Grants : g.PetID = petID
    /\ \A g \in Grants : g.PetID = petID => g.Status = StatusRevoked
    /\ Authorize(byID, PetOwner[petID], petID, ScopeEventsVoid) = {"ok"}

\* C8 as stated: an Accept that found the grant revoked returned BadState
\* and changed nothing.
C8_AcceptRevokedIsBadState ==
  (LastOn("accept") /\ last.st0 = StatusRevoked) =>
    (last.err = ErrBadState /\ ~last.changed)

\* C8 amended: an Accept that found the grant revoked failed and changed
\* nothing; it returned BadState to the grant's grantee and Forbidden to any
\* other caller.
C8_AcceptRevokedFails ==
  (LastOn("accept") /\ last.st0 = StatusRevoked) =>
    /\ ~last.changed
    /\ last.ret = ZeroGrant
    /\ LastGrant.Status = StatusRevoked
    /\ last.err = IF TrimSpace(last.user) = LastGrant.GranteeUserID
                  THEN ErrBadState ELSE ErrForbidden

\* The grantee's Accept of a grant that had been revoked returned BadState.
C8_Witness ==
  /\ LastOn("accept") /\ last.st0 = StatusRevoked
  /\ last.err = ErrBadState
  /\ TrimSpace(last.user) = LastGrant.GranteeUserID

\* C9: in a settled execution an Accept of an invited grant by its grantee
\* returns the grant active without error, and an Accept that repeats it
\* returns the same active grant without error and changes nothing in the
\* store.
C9_AcceptTwice ==
  /\ (LastOn("accept") /\ last.st0 = StatusInvited
      /\ TrimSpace(last.user) = LastGrant.GranteeUserID)
       => /\ last.err = Nil
          /\ last.ret.Status = StatusActive
          /\ AllIdle => last.ret = LastGrant
  /\ (LastOn("accept") /\ last.rep)
       => /\ last.err = Nil
          /\ last.st0 = StatusActive
          /\ last.ret.Status = StatusActive
          /\ ~last.changed
          /\ AllIdle => last.ret = LastGrant

\* The second of two Accept calls in a row has returned, later than the
\* instant of the first.
C9_Witness ==
  /\ AllIdle
  /\ LastOn("accept") /\ last.rep /\ last.err = Nil
  /\ clock > LastGrant.UpdatedAt

\* C10: in a settled execution a successful Revoke returns the grant revoked,
\* and a Revoke that repeats it returns the stored grant, revoked, without
\* error and changes nothing in the store.
C10_RevokeTwice ==
  /\ (LastOn("revoke") /\ last.err = Nil)
       => /\ last.ret.Status = StatusRevoked
          /\ AllIdle => last.ret = LastGrant
  /\ (LastOn("revoke") /\ last.rep)
       => /\ last.err = Nil
          /\ last.st0 = StatusRevoked
          /\ last.ret.Status = StatusRevoked
          /\ ~last.changed
          /\ AllIdle => last.ret = LastGrant

\* The second of two Revoke calls in a row has returned, later than the
\* instant of the first.
C10_Witness ==
  /\ AllIdle
  /\ LastOn("revoke") /\ last.rep /\ last.err = Nil
  /\ clock > LastGrant.UpdatedAt
  /\ LastGrant.RevokedAt = <<LastGrant.UpdatedAt>>

SameTriple(g, h) ==
  /\ g.PetID = h.PetID
  /\ g.OwnerUserID = h.OwnerUserID
  /\ g.GranteeUserID = h.GranteeUserID

\* C11: in a settled execution, when an Invite repeats the Invite that
\* returned before it for the same (pet, owner, grantee) with another scope
\* list, and no grant of the triple is revoked, the store holds exactly one
\* grant of the triple: the one the second call returned, with the second
\* call's scopes (so both calls returned the same id).
C11_InviteTwiceUpdatesSameGrant ==
  (last.op = "invite" /\ last.rep /\ last.err = Nil) =>
    LET same == {h \in Grants : SameTriple(h, last.ret)}
    IN (/\ \A h \in same : h.Status # StatusRevoked
        /\ \A h \in same : h.ID # last.ret.ID => h.Scopes # last.ret.Scopes)
         => same = {last.ret}

\* C12: in a settled execution, a step in which an Invite returns success
\* while every stored grant of its (pet, owner, grantee) triple is revoked
\* adds the returned grant to the store under an id that was not in it, in
\* status invited, and leaves every grant that was stored as it was.
C12_ReinviteAfterRevokeIsFresh ==
  [][(/\ last' # last /\ last'.op = "invite" /\ last'.err = Nil
      /\ \A h \in Grants : SameTriple(h, last'.ret) => h.Status = StatusRevoked)
       => /\ last'.ret.ID \notin DOMAIN byID
          /\ last'.ret.Status = StatusInvited
          /\ DOMAIN byID' = DOMAIN byID \cup {last'.ret.ID}
          /\ byID'[last'.ret.ID] = last'.ret
          /\ \A id \in DOMAIN byID : byID'[id] = byID[id]]_vars

\* An Invite has returned a new invited grant for a triple whose earlier
\* grant, once active, is revoked.
C12_Witness ==
  /\ last.op = "invite" /\ last.err = Nil /\ last.rep = FALSE
  /\ last.ret.ID \in DOMAIN byID /\ byID[last.ret.ID].Status = StatusInvited
  /\ \E h \in Grants : /\ h.ID # last.ret.ID /\ SameTriple(h, last.ret)
                       /\ h.Status = StatusRevoked /\ h.UpdatedAt > h.CreatedAt
  /\ \A h \in Grants : (h.ID # last.ret.ID /\ SameTriple(h, last.ret))
                          => h.Status = StatusRevoked

\* The requested list names a scope that, trimmed, is neither blank nor in
\* the catalog.
HasUnknownScope(scopes) ==
  \E i \in 1..Len(scopes) : TrimSpace(scopes[i]) \notin Allowed \cup {Runes("")}

\* C13: an Invite whose requested scope list names a scope outside the
\* catalog returns InvalidInput and no grant, and changes nothing in the
\* store, whatever the other scopes of the list are.
C13_UnknownScopeRejected ==
  (last.op = "invite" /\ HasUnknownScope(last.in.Scopes)) =>
    /\ last.err = ErrInvalidInput
    /\ last.ret = ZeroGrant
    /\ ~last.changed

\* An Invite naming events:read and an unknown scope has been rejected on a
\* store that holds grants.
C13_Witness ==
  /\ last.op = "invite" /\ HasUnknownScope(last.in.Scopes)
  /\ InSeq(ScopeEventsRead, last.in.Scopes)
  /\ last.err = ErrInvalidInput
  /\ Grants # {}

\* C14: an Invite with an empty requested scope list returns and stores a
\* grant whose scopes are pet:read and events:read and nothing else.
C14_EmptyScopesGiveDefault ==
  (last.op = "invite" /\ last.in.Scopes = <<>>) =>
    /\ last.err = Nil
    /\ Len(last.ret.Scopes) = Cardinality({ScopePetRead, ScopeEventsRead})
    /\ {last.ret.Scopes[i] : i \in DOMAIN last.ret.Scopes}
         = {ScopePetRead, ScopeEventsRead}
    /\ last.ret.ID \in DOMAIN byID
    /\ byID[last.ret.ID] = last.ret

\* An Invite without scopes has stored a second grant with the default
\* scopes next to a grant that was invited with a scope list.
C14_Witness ==
  /\ last.op = "invite" /\ last.in.Scopes = <<>> /\ last.err = Nil
  /\ HasScope(last.ret, ScopePetRead) /\ HasScope(last.ret, ScopeEventsRead)
  /\ \E h \in Grants : h.ID # last.ret.ID /\ h.Scopes = <<ScopeEventsCreate>>

\* C15: in a settled execution, once an Accept of g has returned success,
\* whether it found g invited or already active, g is active and every other
\* grant of g's (pet, grantee) pair is revoked.
C15_AcceptRevokesOthers ==
  (LastOn("accept") /\ last.err = Nil) =>
    /\ last.st0 \in {StatusInvited, StatusActive}
    /\ LastGrant.Status = StatusActive
    /\ \A h \in Grants : (SamePair(h, LastGrant) /\ h.ID # LastGrant.ID)
                            => h.Status = StatusRevoked /\ h.RevokedAt # <<>>

\* An Accept of a grant that was already active has returned after its
\* repair pass revoked a grant of the pair that was invited later.
C15_Witness ==
  /\ AllIdle
  /\ LastOn("accept") /\ last.err = Nil /\ last.st0 = StatusActive
  /\ last.changed
  /\ \E h \in Grants : /\ h.ID # LastGrant.ID /\ SamePair(h, LastGrant)
                       /\ h.Status = StatusRevoked
                       /\ h.CreatedAt >= LastGrant.UpdatedAt

\* C16: over a store whose calls can fail, an Accept that has written g
\* active (or found g active) returns g active without error whatever the
\* listing and the revoke-updates of its repair pass end with, and it
\* returns an error from its activation write only when that write was
\* reported as failed, the store then being as it was or holding g active and
\* nothing else changed; the loop of the repair pass goes through every
\* duplicate of its listing, one revoke-update each, whether or not the
\* earlier ones failed.
C16_RepairIsBestEffort ==
  [][\A p \in Procs :
       /\ (pc[p] = "acc_update")
            => \/ pc'[p] = "acc_update"
               \/ /\ pc'[p] = "acc_list"
                  /\ byID'[loc[p].g.ID] = loc[p].g
               \/ /\ pc'[p] = "idle"
                  /\ last'.err = ErrStore /\ last'.ret = ZeroGrant
                  /\ byID' \in {byID, [byID EXCEPT ![loc[p].g.ID] = loc[p].g]}
       /\ (pc[p] \in {"acc_list", "acc_loop"} /\ pc'[p] = "idle")
            => /\ last'.op = "accept" /\ last'.err = Nil
               /\ last'.ret = loc[p].g
               /\ last'.ret.Status = StatusActive
               /\ byID'[last'.ret.ID].Status = StatusActive
               /\ pc[p] = "acc_loop" => Cardinality(loc[p].items) = 1
       /\ (pc[p] = "acc_loop" /\ pc'[p] = "acc_loop" /\ loc'[p] # loc[p])
            => /\ loc'[p].items \subseteq loc[p].items
               /\ Cardinality(loc'[p].items) = Cardinality(loc[p].items) - 1
               /\ loc'[p].g = loc[p].g]_vars

\* The revoke-update of one duplicate has failed, the duplicate is still not
\* revoked, and the repair pass is about to revoke the next duplicate of its
\* listing.
C16_Witness ==
  \E p \in Procs :
    /\ pc[p] = "acc_loop" /\ loc[p].failed /\ loc[p].items # {}
    /\ byID[loc[p].g.ID].Status = StatusActive
    /\ \E h \in Grants : /\ h.ID # loc[p].g.ID /\ SamePair(h, loc[p].g)
                         /\ h.Status # StatusRevoked /\ h \notin loc[p].items

\* C17: for every pet and grantee, GetActiveGrant of the in-memory store
\* returns an active grant of the pair with the greatest updated_at and,
\* among those, the greatest created_at, and the relational store and the
\* earlier in-memory store can return exactly the same grants from the same
\* stored set.
C17_SameWinnerInEveryStore ==
  \A petID \in PetIDs, userID \in Users :
    LET mem == RepoGetActiveGrant(byID, petID, userID)
    IN /\ \A w \in mem : \A h \in ActiveFor(petID, userID) :
            \/ h.UpdatedAt < w.UpdatedAt
            \/ h.UpdatedAt = w.UpdatedAt /\ h.CreatedAt <= w.CreatedAt
       /\ PgGetActiveGrant(byID, petID, userID) = mem
       /\ MemOldGetActiveGrant(byID, petID, userID) = mem

\* C18: an Accept with a grant id and a caller that are not blank returns
\* NotFound when the store holds no grant under the id, and Forbidden when
\* the caller is not the grantee of the grant it holds (the grant's owner
\* included); either way it returns no grant and changes nothing in the
\* store, and when it returns the grant has the status it had.
C18_AcceptNotFoundOrForbidden ==
  (/\ last.op = "accept"
   /\ TrimSpace(last.grantID) # Runes("") /\ TrimSpace(last.user) # Runes("")) =>
    /\ TrimSpace(last.grantID) \notin DOMAIN byID
         => /\ last.err = ErrNotFound
            /\ last.ret = ZeroGrant /\ ~last.changed
    /\ (/\ TrimSpace(last.grantID) \in DOMAIN byID
        /\ LastGrant.GranteeUserID # TrimSpace(last.user))
         => /\ last.err = ErrForbidden
            /\ last.ret = ZeroGrant /\ ~last.changed
            /\ AllIdle => LastGrant.Status = last.st0

\* The owner's Accept of an invited grant has returned Forbidden and the
\* grant is still invited.
C18_Witness ==
  /\ LastOn("accept") /\ last.err = ErrForbidden
  /\ TrimSpace(last.user) = LastGrant.OwnerUserID
  /\ LastGrant.Status = StatusInvited

\* C19: a Revoke with a grant id and a caller that are not blank returns
\* NotFound when the store holds no grant under the id, and Forbidden when
\* the caller is not the owner of the grant it holds (the grant's grantee
\* included); either way it returns no grant and changes nothing in the
\* store.
C19_RevokeNotFoundOrForbidden ==
  (/\ last.op = "revoke"
   /\ TrimSpace(last.grantID) # Runes("") /\ TrimSpace(last.user) # Runes("")) =>
    /\ TrimSpace(last.grantID) \notin DOMAIN byID
         => /\ last.err = ErrNotFound
            /\ last.ret = ZeroGrant /\ ~last.changed
    /\ (/\ TrimSpace(last.grantID) \in DOMAIN byID
        /\ LastGrant.OwnerUserID # TrimSpace(last.user))
         => /\ last.err = ErrForbidden
            /\ last.ret = ZeroGrant /\ ~last.changed
            /\ AllIdle => LastGrant.Status = last.st0

\* The grantee's Revoke of the grant it holds active has returned Forbidden
\* and the grant is still active.
C19_Witness ==
  /\ AllIdle
  /\ LastOn("revoke") /\ last.err = ErrForbidden
  /\ TrimSpace(last.user) = LastGrant.GranteeUserID
  /\ LastGrant.Status = StatusActive

\* C20: in every state of the store, whatever the interleaving of Invite,
\* Accept, Revoke and the repair pass, a stored grant has revoked_at set
\* exactly when its status is revoked.
C20_RevokedAtIffRevoked ==
  \A g \in Grants : (g.RevokedAt # <<>>) <=> (g.Status = StatusRevoked)

\* A call that overlapped another has returned, leaving one grant revoked
\* with revoked_at equal to its last update and another active with no
\* revoked_at.
C20_Witness ==
  /\ AllIdle /\ last.ov
  /\ \E g \in Grants : g.Status = StatusRevoked /\ g.RevokedAt = <<g.UpdatedAt>>
  /\ \E g \in Grants : g.Status = StatusActive /\ g.RevokedAt = <<>>

\* C21: every stored grant has an owner different from its grantee and a
\* pet, an owner and a grantee that are not empty; an Invite whose owner
\* equals its grantee once the white space around them is trimmed, or whose
\* pet, owner or grantee is empty once trimmed, fails with InvalidInput and
\* creates no grant.
C21_OwnerIsNotGrantee ==
  /\ \A g \in Grants :
       /\ g.OwnerUserID # g.GranteeUserID
       /\ g.PetID # Runes("") /\ g.OwnerUserID # Runes("") /\ g.GranteeUserID # Runes("")
  /\ (/\ last.op = "invite"
      /\ \/ TrimSpace(last.in.PetID) = Runes("")
         \/ TrimSpace(last.in.OwnerUserID) = Runes("")
         \/ TrimSpace(last.in.GranteeUserID) = Runes("")
         \/ TrimSpace(last.in.OwnerUserID) = TrimSpace(last.in.GranteeUserID))
       => /\ last.err = ErrInvalidInput
          /\ last.ret = ZeroGrant
          /\ ~last.changed

\* With a grant in the store, an Invite whose owner and grantee differ only
\* by the white space around them has failed.
C21_Witness ==
  /\ Grants # {}
  /\ last.op = "invite" /\ last.err = ErrInvalidInput
  /\ last.in.OwnerUserID # last.in.GranteeUserID
  /\ TrimSpace(last.in.OwnerUserID) = TrimSpace(last.in.GranteeUserID)

\* A requested list that has entries, all of them blank once trimmed.
AllBlank(scopes) ==
  /\ Len(scopes) > 0
  /\ \A i \in DOMAIN scopes : TrimSpace(scopes[i]) = Runes("")

\* C22: in every state of the store, the scope list of each grant Invite has
\* stored is not empty, holds only scopes of the six-scope catalog and holds
\* none of them twice; an Invite whose requested list has only blank entries
\* fails with InvalidInput and stores nothing, it does not fall back to the
\* default scopes.
C22_StoredScopesAreValid ==
  /\ \A g \in Grants :
       /\ Len(g.Scopes) > 0
       /\ \A i \in DOMAIN g.Scopes : g.Scopes[i] \in Allowed
       /\ \A i, j \in DOMAIN g.Scopes : g.Scopes[i] = g.Scopes[j] => i = j
  /\ (last.op = "invite" /\ AllBlank(last.in.Scopes))
       => /\ last.err = ErrInvalidInput
          /\ last.ret = ZeroGrant
          /\ ~last.changed

\* An Invite with two blank scopes has failed, and the store holds a grant
\* with two scopes and a grant with one.
C22_Witness ==
  /\ last.op = "invite" /\ AllBlank(last.in.Scopes)
  /\ Len(last.in.Scopes) = 2
  /\ last.err = ErrInvalidInput
  /\ \E g \in Grants : Len(g.Scopes) = 2
  /\ \E g \in Grants : Len(g.Scopes) = 1

\* The status changes of the grant lifecycle.
LifecycleSteps ==
  { <<StatusInvited, StatusActive>>, <<StatusInvited, StatusRevoked>>,
    <<StatusActive, StatusRevoked>> }

\* C23: in every step of every execution, interleaved ones included, no
\* grant leaves the store, a grant that enters it is invited, and a stored
\* grant that changes status goes from invited to active, from invited to
\* revoked or from active to revoked, the first only in the store write of
\* an Accept called by the grant's grantee.
C23_StatusChangesAreLifecycle ==
  [][ /\ \A id \in DOMAIN byID :
           /\ id \in DOMAIN byID'
           /\ byID'[id].Status # byID[id].Status
                => /\ <<byID[id].Status, byID'[id].Status>> \in LifecycleSteps
                   /\ byID'[id].Status = StatusActive
                        => \E p \in Procs :
                             /\ pc[p] = "acc_update"
                             /\ loc[p].g.ID = id
                             /\ TrimSpace(loc[p].user) = byID[id].GranteeUserID
      /\ \A id \in DOMAIN byID' \ DOMAIN byID :
           byID'[id].Status = StatusInvited ]_vars

\* The grants of h's (pet, owner, grantee) triple that are not revoked.
NonRevokedOf(h) ==
  {g \in Grants : SameTriple(g, h) /\ g.Status # StatusRevoked}

\* C24: in a settled execution, once an Invite has returned success the
\* store holds exactly one grant of its (pet, owner, grantee) triple that is
\* not revoked, and no revoked grant of the triple was updated after it.
C24_InviteLeavesOneNonRevoked ==
  (last.op = "invite" /\ last.err = Nil) =>
    /\ Cardinality(NonRevokedOf(last.ret)) = 1
    /\ \A g \in NonRevokedOf(last.ret), h \in Grants :
         (SameTriple(h, g) /\ h.Status = StatusRevoked)
           => h.UpdatedAt <= g.UpdatedAt

\* The store without the active grants of userID on petID, every other
\* grant as it is.
WithoutActive(store, petID, userID) ==
  LET keep == {id \in DOMAIN store :
                 ~(/\ store[id].PetID = petID
                   /\ store[id].GranteeUserID = userID
                   /\ store[id].Status = StatusActive)}
  IN [id \in keep |-> store[id]]

\* C25: for a caller who is not the pet's owner and whose active grants on
\* the pet all lack the scope a request needs, the authorization check
\* answers "forbidden" and nothing else, and it answers the same on the store
\* that differs only in that the caller has no active grant on the pet.
C25_DenyIsUniform ==
  \A userID \in Users, petID \in PetIDs, scope \in Allowed :
    (/\ PetOwner[petID] # userID
     /\ ActiveFor(petID, userID) # {}
     /\ \A g \in ActiveFor(petID, userID) : ~HasScope(g, scope))
      => /\ Authorize(byID, userID, petID, scope) = {"forbidden"}
         /\ Authorize(WithoutActive(byID, petID, userID), userID, petID, scope)
              = Authorize(byID, userID, petID, scope)

\* bob holds an active grant on p1 that lets him read the pet and not create
\* events: his request to create an event is denied, as it is on the store
\* without the grant, while his request to read the pet is allowed.
C25_Witness ==
  /\ AllIdle
  /\ \E g \in ActiveFor(Runes("p1"), Runes("bob")) :
       HasScope(g, ScopePetRead) /\ ~HasScope(g, ScopeEventsCreate)
  /\ Authorize(byID, Runes("bob"), Runes("p1"), ScopeEventsCreate) = {"forbidden"}
  /\ Authorize(WithoutActive(byID, Runes("p1"), Runes("bob")), Runes("bob"),
               Runes("p1"), ScopeEventsCreate)
       = {"forbidden"}
  /\ Authorize(byID, Runes("bob"), Runes("p1"), ScopePetRead) = {"ok"}

\* C26: a step in which an Invite returns success stores the grant it
\* returns, which is invited, has no revoked_at, has created_at and
\* updated_at equal to the instant the call read from the clock, no later
\* than the instant of the step, and has an id that no grant in the store
\* had.
C26_NewGrantIsFresh ==
  [][(last' # last /\ last'.op = "invite" /\ last'.err = Nil)
       => /\ last'.ret.Status = StatusInvited
          /\ last'.ret.RevokedAt = <<>>
          /\ \E p \in Procs : /\ pc[p] = "inv_create" /\ pc'[p] = "idle"
                              /\ last'.ret.CreatedAt = loc[p].now
                              /\ last'.ret.UpdatedAt = loc[p].now
                              /\ loc[p].now <= clock
          /\ last'.ret.ID # Runes("")
          /\ last'.ret.ID \notin DOMAIN byID
          /\ DOMAIN byID' = DOMAIN byID \cup {last'.ret.ID}
          /\ byID'[last'.ret.ID] = last'.ret]_vars

\* An Invite has stored a second grant, stamped with an instant the clock
\* has passed.
C26_Witness ==
  /\ last.op = "invite" /\ last.err = Nil
  /\ last.ret.ID \in DOMAIN byID
  /\ byID[last.ret.ID].CreatedAt < clock
  /\ \E h \in Grants : h.ID # last.ret.ID /\ h.CreatedAt <= last.ret.CreatedAt

\* C27: a Create of a grant whose id is already stored fails and an Update
\* of a grant whose id is not stored fails with NotFound; neither changes
\* the store: the stored grant is not overwritten and nothing is inserted.
C27_StoreRejectsWithoutWriting ==
  [][/\ (/\ last' # last /\ last'.op = "create"
         /\ last'.grantID \in DOMAIN byID)
          => /\ last'.err = ErrRepoExists
             /\ byID' = byID
     /\ (/\ last' # last /\ last'.op = "update"
         /\ last'.grantID # Runes("") /\ last'.grantID \notin DOMAIN byID)
          => /\ last'.err = MemoryErrNotFound
             /\ byID' = byID]_vars

\* A Create under an id that is stored has failed, and right after it an
\* Update of a grant under the id g2, which is not stored, has failed with the
\* store's NotFound: the store holds g1 alone, and not as the grant of the
\* Update.
C27_Witness ==
  /\ last.prev = <<"create", ErrRepoExists>>
  /\ last.op = "update" /\ last.err = MemoryErrNotFound
  /\ last.grantID = Runes("g2") /\ DOMAIN byID = {Runes("g1")}
  /\ byID[Runes("g1")].Status # last.ret.Status

\* C28: in executions without Revoke calls, when a successful Accept of an
\* invited grant that overlapped another call has returned, every call has
\* returned, and the pair's two grants have both been accepted or revoked,
\* exactly one of the two is active.
C28_ConcurrentAcceptsKeepOneActive ==
  (/\ AllIdle
   /\ LastOn("accept") /\ last.err = Nil /\ last.ov
   /\ last.st0 = StatusInvited
   /\ Cardinality(Grants) = 2
   /\ \A g \in Grants : g.Status # StatusInvited)
    => Cardinality(ActiveFor(Runes("p1"), Runes("bob"))) = 1

\* C29 as claimed: a returned Invite, Accept or Revoke call that ended with
\* an error has left the store as it was before the call: none of its store
\* writes changed the store.
C29_ErrorLeavesStoreUnchanged ==
  (last.op \in {"invite", "accept", "revoke"} /\ last.err # Nil)
    => ~last.changed

\* The one store write of the call of request p that can end it with an
\* error: the Create of Invite, called directly or by the invite route, the
\* Update of Accept that activates the grant, the Update of Revoke.
OwnWrite(p) ==
  IF p \in Creating THEN RepoCreate(byID, loc[p].g)
  ELSE RepoUpdate(byID, loc[p].g)

\* C29, amended: an Invite, Accept or Revoke call that returns an error
\* returns no grant, has made no store write before the step it returns from
\* and has run no cleanup pass, and the step it returns from leaves the store
\* as it is, with one exception: when the error is the one the database gave
\* for the call's own write (the Create of Invite, the activating Update of
\* Accept, the Update of Revoke), the store is either as it was or holds
\* exactly that write, the grant created or the target grant as written; no
\* other grant is created or changed.
C29_ErrorLeavesStoreOrItsOneWrite ==
  [][/\ (/\ pc' = pc /\ last' # last /\ last'.err # Nil
         /\ last'.op \in {"invite", "accept", "revoke"})
          => /\ last'.ret = ZeroGrant
             /\ ~last'.changed /\ byID' = byID
     /\ \A p \in Procs :
          (/\ pc[p] # "idle" /\ pc'[p] = "idle" /\ last'.err # Nil
           /\ last'.op \in {"invite", "accept", "revoke"})
            => /\ last'.ret = ZeroGrant
               /\ ~loc[p].wrote
               /\ pc[p] \in {"inv_create", "acc_update", "rev_update"}
               /\ last'.changed = (byID' # byID)
               /\ \/ byID' = byID
                  \/ /\ last'.err = ErrStore
                     /\ byID' = OwnWrite(p).store]_vars

\* The activating Update of an Accept of an invited grant has ended with the
\* error of the database after it took effect: Accept has returned the error
\* and the grant is stored active, while the other grant of the pair, which
\* the repair pass of a successful Accept would have revoked, is invited as
\* before.
C29_Witness ==
  /\ AllIdle
  /\ LastOn("accept") /\ last.err = ErrStore /\ last.changed
  /\ last.st0 = StatusInvited /\ LastGrant.Status = StatusActive
  /\ \E h \in Grants : h.ID # LastGrant.ID /\ h.Status = StatusInvited

\* C30: in a settled execution, once an Accept of g by its grantee has
\* returned success, GetActiveGrant for g's pet and the grantee returns the
\* stored g, which is the grant the Accept returned, and nothing else, in
\* each of the stores; the grantee is allowed exactly the scopes of g.
C30_AcceptedGrantIsTheActiveOne ==
  (AllIdle /\ LastOn("accept") /\ last.err = Nil) =>
    LET g == LastGrant
    IN /\ g = last.ret
       /\ g.GranteeUserID = TrimSpace(last.user)
       /\ GetActiveGrant(byID, g.PetID, last.user) = {[g |-> g, err |-> Nil]}
       /\ PgGetActiveGrant(byID, g.PetID, g.GranteeUserID) = {g}
       /\ MemOldGetActiveGrant(byID, g.PetID, g.GranteeUserID) = {g}
       /\ \A scope \in Allowed :
            ("ok" \in Authorize(byID, g.GranteeUserID, g.PetID, scope))
              <=> HasScope(g, scope)

\* An Accept of a grant with the scope events:read alone has returned after
\* revoking the grant of the pair that was active, which had the default
\* scopes: the grantee may no longer read the pet.
C30_Witness ==
  /\ AllIdle
  /\ LastOn("accept") /\ last.err = Nil /\ last.changed
  /\ LastGrant.Scopes = <<ScopeEventsRead>>
  /\ \E h \in Grants :
       /\ h.ID # LastGrant.ID /\ SamePair(h, LastGrant)
       /\ h.Status = StatusRevoked /\ h.Scopes = DefaultScopes
       /\ h.UpdatedAt = LastGrant.UpdatedAt
  /\ Authorize(byID, Runes("bob"), Runes("p1"), ScopePetRead) = {"forbidden"}

\* C31: in every execution, interleaved ones included, a store write of the
\* repair pass of an Accept of g changes no grant but one of g's pet and
\* grantee: not g, not a grant of another grantee or of another pet, and not
\* a grant that is revoked, whose revoked_at and updated_at stay as they are.
C31_RepairChangesOnlyDuplicates ==
  [][\A p \in Procs :
       (pc[p] = "acc_loop" /\ loc'[p] # loc[p] /\ byID' # byID)
         => /\ DOMAIN byID' = DOMAIN byID
            /\ \A id \in DOMAIN byID :
                 byID'[id] # byID[id]
                   => /\ id # loc[p].g.ID
                      /\ byID[id].PetID = loc[p].g.PetID
                      /\ byID[id].GranteeUserID = loc[p].g.GranteeUserID
                      /\ byID[id].Status # StatusRevoked]_vars

\* C32: through the invite route, a request on a pet by an identified caller
\* who is not the pet's owner is answered "forbidden" and stores nothing;
\* every stored grant has the owner of its pet as its owner, and so has
\* every active grant GetActiveGrant returns for a pet and a user.
C32_OnlyOwnerInvites ==
  /\ (/\ last.op = "invite_route"
      /\ TrimSpace(last.user) # Runes("")
      /\ TrimSpace(last.grantID) \in DOMAIN PetOwner
      /\ PetOwner[TrimSpace(last.grantID)] # last.user)
       => /\ last.err = "forbidden"
          /\ last.ret = ZeroGrant
          /\ ~last.changed
  /\ \A g \in Grants :
       g.PetID \in DOMAIN PetOwner /\ g.OwnerUserID = PetOwner[g.PetID]
  /\ \A petID \in PetIDs, userID \in Users :
       \A r \in GetActiveGrant(byID, petID, userID) :
         r.err = Nil => r.g.OwnerUserID = PetOwner[petID]

\* bob's invite on alice's pet, the id of the pet written with white space
\* around it, has been answered "forbidden", while bob himself holds an
\* active grant on the pet that alice issued through the route.
C32_Witness ==
  /\ last.op = "invite_route" /\ last.err = "forbidden"
  /\ last.user = Runes("bob") /\ last.grantID = <<160>> \o Runes("p1\t")
  /\ \E g \in ActiveFor(Runes("p1"), Runes("bob")) : g.OwnerUserID = Runes("alice")
  /\ \A g \in Grants : g.OwnerUserID # Runes("bob")

\* C33: in every step of every execution, interleaved ones included, a
\* stored grant stays stored under its id with the id, pet, owner, grantee
\* and created_at it had.
C33_IdentityNeverChanges ==
  [][\A id \in DOMAIN byID :
       /\ id \in DOMAIN byID'
       /\ byID'[id].ID = id /\ byID[id].ID = id
       /\ byID'[id].PetID = byID[id].PetID
       /\ byID'[id].OwnerUserID = byID[id].OwnerUserID
       /\ byID'[id].GranteeUserID = byID[id].GranteeUserID
       /\ byID'[id].CreatedAt = byID[id].CreatedAt]_vars

\* After overlapping calls, a grant accepted and a grant revoked later than
\* they were created are stored under their ids with the pet, owner and
\* grantee of their invitation.
C33_Witness ==
  /\ AllIdle /\ last.ov
  /\ \E id \in DOMAIN byID :
       /\ byID[id].Status = StatusActive
       /\ byID[id].UpdatedAt > byID[id].CreatedAt
       /\ byID[id].ID = id /\ byID[id].PetID = Runes("p1")
       /\ byID[id].OwnerUserID = Runes("alice") /\ byID[id].GranteeUserID = Runes("bob")
  /\ \E id \in DOMAIN byID :
       /\ byID[id].Status = StatusRevoked
       /\ byID[id].RevokedAt = <<byID[id].UpdatedAt>>
       /\ byID[id].UpdatedAt > byID[id].CreatedAt
       /\ byID[id].ID = id /\ byID[id].PetID = Runes("p1")
       /\ byID[id].OwnerUserID = Runes("alice") /\ byID[id].GranteeUserID = Runes("bob")

====
